---- MODULE Spec2Model ----
(***************************************************************************)
(* get_4via6_address (infrastructure/eks/ip_calc.py): the derivation of a  *)
(* Tailscale 4via6 route from a site id and an IPv4 CIDR text.             *)
(*                                                                         *)
(* A Python str is a sequence of one-character strings.  A 32-bit address  *)
(* (a Python int in the ipaddress module) is a sequence of 32 bits, most   *)
(* significant first, because TLC's integers are 32-bit and signed.         *)
(***************************************************************************)
EXTENDS Integers, Sequences, FiniteSets, TLC

VARIABLES
  site_id,        \* argument
  ipv4_cidr,      \* argument
  pc,             \* the statement the invocation is at
  translator_id,  \* local, line 12
  ipv4_network,   \* local, line 15
  ipv4_address,   \* local, line 18
  ipv4_hex,       \* local, line 21
  prefix_length,  \* local, line 24
  ipv6_address,   \* local, line 27
  returned,       \* the value handed to the caller by line 29
  raised,         \* the exception that left the function
  _netmask_cache, \* ipaddress._BaseV4._netmask_cache: a class attribute, which
                  \* outlives the invocation
  calls,          \* the number of invocations the process has started
  earlier,        \* one invocation that has ended, as its caller saw it
  threads,        \* the frames of the invocations that run in threads side
                  \* by side, all of them on the one _netmask_cache
  program         \* aws/eks/__main__.py: the statement it is at, the
                  \* resources it has declared, and its names SITE and ipv6_cidr

vars == <<site_id, ipv4_cidr, pc, translator_id, ipv4_network, ipv4_address,
          ipv4_hex, prefix_length, ipv6_address, returned, raised,
          _netmask_cache, calls, earlier, threads, program>>

(***************************************************************************)
(* Text                                                                    *)
(***************************************************************************)
DecDigits == <<"0", "1", "2", "3", "4", "5", "6", "7", "8", "9">>

HexDigits == <<"0", "1", "2", "3", "4", "5", "6", "7", "8", "9", "a", "b", "c", "d", "e", "f">>

\* F of x, with x worked out once and then bound, as an assignment does
Once(F(_), x) == CHOOSE r \in {F(v) : v \in {x}} : TRUE

IsDecDigit(c) == \E i \in 1..Len(DecDigits) : DecDigits[i] = c

DigitValue(c) == (CHOOSE i \in 1..Len(HexDigits) : HexDigits[i] = c) - 1

\* str.isascii() and str.isdigit(): every character a decimal digit, and at
\* least one character
isascii_isdigit(s) == s # <<>> /\ \A i \in 1..Len(s) : IsDecDigit(s[i])

\* int(s, 10) of a string of decimal digits
RECURSIVE int10(_)
int10(s) ==
  IF s = <<>> THEN 0
  ELSE 10 * int10(SubSeq(s, 1, Len(s) - 1)) + DigitValue(s[Len(s)])

\* str(n), and the default format of an int in an f-string
RECURSIVE str(_)
str(n) ==
  IF n < 0 THEN <<"-">> \o str(-n)
  ELSE IF n < 10 THEN <<DecDigits[n + 1]>>
  ELSE str(n \div 10) \o <<DecDigits[(n % 10) + 1]>>

\* format(n, "x"): lowercase hexadecimal without padding
RECURSIVE hex(_)
hex(n) ==
  IF n < 16 THEN <<HexDigits[n + 1]>>
  ELSE hex(n \div 16) \o <<HexDigits[(n % 16) + 1]>>

\* format(n, "x") in the place of format(n, "02x"): no padding
format_x(n) == hex(n)

\* format(n, "02x"): lowercase hexadecimal, zero-padded to a width of two
format_02x(n) == IF Len(hex(n)) < 2 THEN <<"0">> \o hex(n) ELSE hex(n)

\* s.split(sep) for a one-character separator
RECURSIVE split(_, _)
split(s, sep) ==
  IF \A i \in 1..Len(s) : s[i] # sep THEN <<s>>
  ELSE LET k == CHOOSE i \in 1..Len(s) :
                  s[i] = sep /\ \A j \in 1..(i - 1) : s[j] # sep
       IN  <<SubSeq(s, 1, k - 1)>> \o split(SubSeq(s, k + 1, Len(s)), sep)

(***************************************************************************)
(* Outcomes of a call that may raise                                       *)
(***************************************************************************)
NoException == [type |-> "None", why |-> ""]

Exception(t, w) == [type |-> t, why |-> w]

Ok(v) == [exc |-> NoException, value |-> v]

Raise(t, w) == [exc |-> Exception(t, w)]

Raised(r) == r.exc # NoException

\* issubclass(type, ValueError): AddressValueError and NetmaskValueError are
\* declared as subclasses of ValueError by the ipaddress module
IsValueError(e) == e.type \in {"ValueError", "AddressValueError", "NetmaskValueError"}

(***************************************************************************)
(* 32-bit values                                                           *)
(***************************************************************************)
IPV4LENGTH == 32

\* the eight bits of a byte, most significant first
ByteBits(b) == [i \in 1..8 |-> (b \div (2 ^ (8 - i))) % 2]

\* int.from_bytes(octets, 'big')
from_bytes(octets) ==
  [i \in 1..IPV4LENGTH |-> ByteBits(octets[((i - 1) \div 8) + 1])[((i - 1) % 8) + 1]]

\* address.packed[k] (k counted from 0): byte k of the big-endian encoding
RECURSIVE BitsValue(_)
BitsValue(bs) ==
  IF bs = <<>> THEN 0
  ELSE 2 * BitsValue(SubSeq(bs, 1, Len(bs) - 1)) + bs[Len(bs)]

packed(ip, k) == BitsValue(SubSeq(ip, 8 * k + 1, 8 * k + 8))

\* a & b
BitAnd(a, b) == [i \in 1..IPV4LENGTH |-> a[i] * b[i]]

\* a ^ _ALL_ONES
Invert(a) == [i \in 1..IPV4LENGTH |-> 1 - a[i]]

(***************************************************************************)
(* ipaddress.IPv4Network(address), as the standard library computes it     *)
(* for a str argument with the default strict=True                         *)
(***************************************************************************)
\* _parse_octet with the upper limit of an octet taken as exclusive
_parse_octet_Exclusive(octet_str) ==
  IF octet_str = <<>> THEN Raise("ValueError", "Empty octet not permitted")
  ELSE IF ~isascii_isdigit(octet_str)
    THEN Raise("ValueError", "Only decimal digits permitted")
  ELSE IF Len(octet_str) > 3
    THEN Raise("ValueError", "At most 3 characters permitted")
  ELSE IF octet_str # <<"0">> /\ octet_str[1] = "0"
    THEN Raise("ValueError", "Leading zeros are not permitted")
  ELSE IF int10(octet_str) >= 255
    THEN Raise("ValueError", "Octet (> 255) not permitted")
  ELSE Ok(int10(octet_str))

\* _parse_octet without the upper limit of an octet
_parse_octet_NoRange(octet_str) ==
  IF octet_str = <<>> THEN Raise("ValueError", "Empty octet not permitted")
  ELSE IF ~isascii_isdigit(octet_str)
    THEN Raise("ValueError", "Only decimal digits permitted")
  ELSE IF Len(octet_str) > 3
    THEN Raise("ValueError", "At most 3 characters permitted")
  ELSE IF octet_str # <<"0">> /\ octet_str[1] = "0"
    THEN Raise("ValueError", "Leading zeros are not permitted")
  ELSE Ok(int10(octet_str))

\* _BaseV4._parse_octet
_parse_octet(octet_str) ==
  IF octet_str = <<>> THEN Raise("ValueError", "Empty octet not permitted")
  ELSE IF ~isascii_isdigit(octet_str)
    THEN Raise("ValueError", "Only decimal digits permitted")
  ELSE IF Len(octet_str) > 3
    THEN Raise("ValueError", "At most 3 characters permitted")
  ELSE IF octet_str # <<"0">> /\ octet_str[1] = "0"
    THEN Raise("ValueError", "Leading zeros are not permitted")
  ELSE IF int10(octet_str) > 255
    THEN Raise("ValueError", "Octet (> 255) not permitted")
  ELSE Ok(int10(octet_str))

\* _ip_int_from_string, its last statement: int.from_bytes of the octets as
\* map(_parse_octet, octets) yields them; the first ValueError of an octet
\* becomes an AddressValueError
_ip_int_from_parsed(parsed) ==
  IF \E i \in 1..4 : Raised(parsed[i])
    THEN Raise("AddressValueError",
               parsed[CHOOSE i \in 1..4 :
                        Raised(parsed[i]) /\ \A j \in 1..(i - 1) : ~Raised(parsed[j])
                     ].exc.why)
    ELSE Ok(from_bytes([i \in 1..4 |-> parsed[i].value]))

\* _ip_int_from_string, from octets = ip_str.split('.') on
_ip_int_from_octets(octets) ==
  IF Len(octets) # 4 THEN Raise("AddressValueError", "Expected 4 octets")
  ELSE Once(_ip_int_from_parsed, [i \in 1..4 |-> _parse_octet(octets[i])])

\* _BaseV4._ip_int_from_string
_ip_int_from_string(ip_str) ==
  IF ip_str = <<>> THEN Raise("AddressValueError", "Address cannot be empty")
  ELSE Once(_ip_int_from_octets, split(ip_str, "."))

\* _count_righthand_zero_bits(number, bits) for bits = 32
_count_righthand_zero_bits(number) ==
  IF \A i \in 1..IPV4LENGTH : number[i] = 0 THEN IPV4LENGTH
  ELSE IPV4LENGTH - (CHOOSE i \in 1..IPV4LENGTH :
                       number[i] = 1 /\ \A j \in (i + 1)..IPV4LENGTH : number[j] = 0)

\* _BaseNetwork._prefix_from_ip_int: the prefix length of a mask of the form
\* 1*0*, ValueError when the mask mixes zeroes and ones
_prefix_from_ip_int(ip_int) ==
  IF \E i \in 1..(IPV4LENGTH - _count_righthand_zero_bits(ip_int)) : ip_int[i] = 0
    THEN Raise("ValueError", "Netmask pattern mixes zeroes & ones")
    ELSE Ok(IPV4LENGTH - _count_righthand_zero_bits(ip_int))

\* _prefix_from_prefix_string without its check against _max_prefixlen
_prefix_from_prefix_string_NoRange(prefixlen_str) ==
  IF ~isascii_isdigit(prefixlen_str)
    THEN Raise("NetmaskValueError", "is not a valid netmask")
    ELSE Ok(int10(prefixlen_str))

\* _prefix_from_prefix_string with both limits taken as exclusive
_prefix_from_prefix_string_Exclusive(prefixlen_str) ==
  IF ~isascii_isdigit(prefixlen_str)
    THEN Raise("NetmaskValueError", "is not a valid netmask")
  ELSE IF ~(0 < int10(prefixlen_str) /\ int10(prefixlen_str) < IPV4LENGTH)
    THEN Raise("NetmaskValueError", "is not a valid netmask")
  ELSE Ok(int10(prefixlen_str))

\* _BaseNetwork._prefix_from_prefix_string
_prefix_from_prefix_string(prefixlen_str) ==
  IF ~isascii_isdigit(prefixlen_str)
    THEN Raise("NetmaskValueError", "is not a valid netmask")
  ELSE IF ~(0 <= int10(prefixlen_str) /\ int10(prefixlen_str) <= IPV4LENGTH)
    THEN Raise("NetmaskValueError", "is not a valid netmask")
  ELSE Ok(int10(prefixlen_str))

\* _prefix_from_ip_string, its two try statements: the mask read as a
\* netmask, else its inverse read as one (a hostmask), else NetmaskValueError
_prefix_from_masks(as_netmask, as_hostmask) ==
  IF ~Raised(as_netmask) THEN as_netmask
  ELSE IF ~Raised(as_hostmask) THEN as_hostmask
  ELSE Raise("NetmaskValueError", "is not a valid netmask")

\* _prefix_from_ip_string, from the mask parsed like an address on
_prefix_from_mask_int(ip_int) ==
  IF Raised(ip_int) THEN Raise("NetmaskValueError", "is not a valid netmask")
  ELSE _prefix_from_masks(_prefix_from_ip_int(ip_int.value),
                          _prefix_from_ip_int(Invert(ip_int.value)))

\* _BaseNetwork._prefix_from_ip_string: a dotted-quad netmask or hostmask
_prefix_from_ip_string(ip_str) == _prefix_from_mask_int(_ip_int_from_string(ip_str))

\* _BaseV4._ip_int_from_prefix: the netmask of a prefix length
_ip_int_from_prefix(prefixlen) ==
  [i \in 1..IPV4LENGTH |-> IF i <= prefixlen THEN 1 ELSE 0]

\* the two kinds of argument _make_netmask is given: the str after the '/',
\* or the int _max_prefixlen when the text has no '/'
StrArg(s) == [kind |-> "str", text |-> s, number |-> 0]

IntArg(n) == [kind |-> "int", text |-> <<>>, number |-> n]

\* the entry of some argument, whichever was asked for
CacheGet_AnyEntry(cache, arg) == cache[CHOOSE k \in DOMAIN cache : TRUE]

\* return cls._netmask_cache[arg]
CacheGet(cache, arg) == cache[arg]

\* every argument cached so far made to share the entry that is stored
CachePut_SharedEntry(cache, arg, entry) == [k \in DOMAIN cache \cup {arg} |-> entry]

\* _netmask_cache[arg] = netmask, prefixlen
CachePut(cache, arg, entry) ==
  [k \in DOMAIN cache \cup {arg} |-> IF k = arg THEN entry ELSE cache[k]]

\* _make_netmask, the try statement: the prefix length string, and when that
\* raises NetmaskValueError the dotted-quad mask
_prefix_from_str(from_prefix_string, ip_str) ==
  IF ~Raised(from_prefix_string) THEN from_prefix_string
  ELSE _prefix_from_ip_string(ip_str)

\* _make_netmask, the prefix length of an argument that is not cached
_prefixlen_of(arg) ==
  IF arg.kind = "int"
    THEN IF ~(0 <= arg.number /\ arg.number <= IPV4LENGTH)
           THEN Raise("NetmaskValueError", "is not a valid netmask")
           ELSE Ok(arg.number)
    ELSE _prefix_from_str(_prefix_from_prefix_string(arg.text), arg.text)

\* _make_netmask, its last statements: (netmask, prefixlen) is stored in the
\* cache and returned; nothing is stored when the prefix length raised
_make_netmask_store(arg, cache, prefixlen) ==
  IF Raised(prefixlen) THEN [exc |-> prefixlen.exc, cache |-> cache]
  ELSE [exc |-> NoException,
        value |-> [netmask |-> _ip_int_from_prefix(prefixlen.value),
                   prefixlen |-> prefixlen.value],
        cache |-> CachePut(cache, arg,
                           [netmask |-> _ip_int_from_prefix(prefixlen.value),
                            prefixlen |-> prefixlen.value])]

\* _BaseV4._make_netmask: (netmask, prefixlen), computed once for each
\* argument and then read from the cache
_make_netmask(arg, cache) ==
  IF arg \in DOMAIN cache
    THEN [exc |-> NoException, value |-> CacheGet(cache, arg), cache |-> cache]
    ELSE Once(LAMBDA prefixlen : _make_netmask_store(arg, cache, prefixlen),
              _prefixlen_of(arg))

\* a text without '/' refused
_addr_prefix_of_Required(addr) ==
  IF Len(addr) > 2 THEN Raise("AddressValueError", "Only one '/' permitted")
  ELSE IF Len(addr) > 1 THEN Ok([addr |-> addr[1], mask |-> StrArg(addr[2])])
  ELSE Raise("AddressValueError", "Expected a prefix length")

\* _BaseNetwork._split_addr_prefix, from the list _split_optional_netmask
\* returns on
_addr_prefix_of(addr) ==
  IF Len(addr) > 2 THEN Raise("AddressValueError", "Only one '/' permitted")
  ELSE IF Len(addr) > 1 THEN Ok([addr |-> addr[1], mask |-> StrArg(addr[2])])
  ELSE Ok([addr |-> addr[1], mask |-> IntArg(IPV4LENGTH)])

\* _split_optional_netmask and _BaseNetwork._split_addr_prefix
_split_addr_prefix(address) == _addr_prefix_of(split(address, "/"))

\* the address kept as it is written, as ip_interface(...).ip does
IPv4Network_AsWritten(address_int, mask) ==
  IF Raised(mask) THEN [exc |-> mask.exc, cache |-> mask.cache]
  ELSE [exc |-> NoException,
        value |-> [network_address |-> address_int, prefixlen |-> mask.value.prefixlen],
        cache |-> mask.cache]

\* IPv4Network.__init__ with strict=False: the host bits are cleared
IPv4Network_NotStrict(address_int, mask) ==
  IF Raised(mask) THEN [exc |-> mask.exc, cache |-> mask.cache]
  ELSE [exc |-> NoException,
        value |-> [network_address |-> BitAnd(address_int, mask.value.netmask),
                   prefixlen |-> mask.value.prefixlen],
        cache |-> mask.cache]

\* IPv4Network.__init__ with strict=True, after _make_netmask: ValueError
\* when the address has a bit set outside the netmask
IPv4Network_strict(address_int, mask) ==
  IF Raised(mask) THEN [exc |-> mask.exc, cache |-> mask.cache]
  ELSE IF BitAnd(address_int, mask.value.netmask) # address_int
    THEN [exc |-> Exception("ValueError", "has host bits set"), cache |-> mask.cache]
  ELSE [exc |-> NoException,
        value |-> [network_address |-> address_int, prefixlen |-> mask.value.prefixlen],
        cache |-> mask.cache]

\* IPv4Network.__init__, after IPv4Address(addr)
IPv4Network_netmask(network_address, mask_arg, cache) ==
  IF Raised(network_address) THEN [exc |-> network_address.exc, cache |-> cache]
  ELSE Once(LAMBDA mask : IPv4Network_strict(network_address.value, mask),
            _make_netmask(mask_arg, cache))

\* IPv4Network.__init__, after _split_addr_prefix(address)
IPv4Network_address(parts, cache) ==
  IF Raised(parts) THEN [exc |-> parts.exc, cache |-> cache]
  ELSE Once(LAMBDA network_address :
              IPv4Network_netmask(network_address, parts.value.mask, cache),
            _ip_int_from_string(parts.value.addr))

\* IPv4Network.__init__(address, strict=True): the network, or the exception,
\* and the cache as the call leaves it
IPv4Network(address, cache) ==
  Once(LAMBDA parts : IPv4Network_address(parts, cache), _split_addr_prefix(address))

(***************************************************************************)
(* Arguments                                                               *)
(***************************************************************************)
\* the site ids tried: both sides of each limit of line 8, and both sides of
\* each change in the number of decimal and of hexadecimal digits
SiteIds == {-1, 0, 1, 9, 10, 255, 4095, 9999, 10000, 65535, 65536}

\* IPv4 addresses the CIDR texts are written from
Addresses ==
  { <<0, 0, 0, 0>>, <<10, 100, 0, 0>>, <<10, 100, 0, 5>>, <<10, 0, 0, 1>>,
    <<128, 0, 0, 0>>, <<171, 205, 239, 0>>, <<192, 168, 0, 0>>,
    <<255, 255, 255, 255>> }

PrefixLengths == 0..IPV4LENGTH

DottedQuad(a) ==
  str(a[1]) \o <<".">> \o str(a[2]) \o <<".">> \o str(a[3]) \o <<".">> \o str(a[4])

CidrText(a, p) == DottedQuad(a) \o <<"/">> \o str(p)

\* every address with every prefix length: host bits clear and host bits set
WrittenCidrs == {CidrText(a, p) : a \in Addresses, p \in PrefixLengths}

\* texts that are not address/prefix-length, or are not in range
OtherTexts ==
  { <<"n", "o", "t", "-", "a", "-", "c", "i", "d", "r">>, <<>>, <<"1", "0", ".", "0", ".", "0", ".", "1">>, <<"1", "0", ".", "1", "0", "0", ".", "0", ".", "0", "/">>, <<"/", "1", "6">>,
    <<"1", "0", ".", "1", "0", "0", ".", "0", ".", "0", "/", "1", "6", "/", "1", "6">>, <<"1", "0", ".", "1", "0", "0", ".", "0", "/", "1", "6">>, <<"1", "0", ".", ".", "0", ".", "0", "/", "1", "6">>, <<"1", "0", ".", "a", ".", "0", ".", "0", "/", "1", "6">>,
    <<"2", "5", "6", ".", "0", ".", "0", ".", "0", "/", "8">>, <<"1", "0", "0", "0", ".", "0", ".", "0", ".", "0", "/", "8">>, <<"0", "1", "0", ".", "0", ".", "0", ".", "0", "/", "8">>, <<"1", "0", ".", "0", ".", "0", ".", "0", "/", "3", "3">>,
    <<"1", "0", ".", "0", ".", "0", ".", "0", "/", "-", "1">>, <<"1", "0", ".", "0", ".", "0", ".", "0", "/", "x">>, <<"1", "0", ".", "0", ".", "0", ".", "0", "/", "0", "8">>,
    <<"1", "0", ".", "1", "0", "0", ".", "0", ".", "0", "/", "2", "5", "5", ".", "2", "5", "5", ".", "0", ".", "0">>, <<"1", "0", ".", "1", "0", "0", ".", "0", ".", "0", "/", "0", ".", "0", ".", "2", "5", "5", ".", "2", "5", "5">>,
    <<"1", "0", ".", "1", "0", "0", ".", "0", ".", "0", "/", "2", "5", "5", ".", "0", ".", "2", "5", "5", ".", "0">>, <<"1", "0", ".", "1", "0", "0", ".", "0", ".", "5", "/", "2", "5", "5", ".", "2", "5", "5", ".", "0", ".", "0">> }

\* an octet that is no decimal numeral or is above 255, in each of the four
\* places, and a prefix length below 0 or above 32
OctetTexts ==
  { <<"2", "5", "6">>, <<"3", "0", "0">>, <<"9", "9", "9">>, <<"a">>, <<"1", "a">>, <<"x">>, <<"-", "1">>, <<"+", "1">>, <<" ", "1">> }

PrefixLengthTexts == { <<"3", "3">>, <<"6", "4">>, <<"9", "9">>, <<"1", "0", "0">>, <<"1", "2", "8">>, <<"2", "5", "5">>, <<"-", "1">>, <<"-", "3", "2">> }

OctetInPlace(k, octet) ==
  LET quad == [i \in 1..4 |->
                 IF i = k THEN octet ELSE <<<<"1", "0">>, <<"1", "0", "0">>, <<"0">>, <<"0">>>>[i]]
  IN  quad[1] \o <<".">> \o quad[2] \o <<".">> \o quad[3] \o <<".">> \o quad[4] \o <<"/", "1", "6">>

OutOfRangeTexts ==
  {OctetInPlace(k, octet) : k \in 1..4, octet \in OctetTexts}
    \cup {<<"0", ".", "0", ".", "0", ".", "0", "/">> \o p : p \in PrefixLengthTexts}

\* networks that differ in one of address and prefix length only, or in
\* where a digit of the address stands, and one network written in three ways
PairTexts ==
  { <<"0", ".", "0", ".", "0", ".", "0", "/", "0">>, <<"0", ".", "0", ".", "0", ".", "0", "/", "8">>, <<"0", ".", "0", ".", "0", ".", "0", "/", "3", "2">>, <<"1", "0", ".", "0", ".", "0", ".", "0", "/", "8">>, <<"1", "0", ".", "0", ".", "0", ".", "0", "/", "1", "6">>,
    <<"1", ".", "1", "6", ".", "0", ".", "0", "/", "1", "6">>, <<"1", "7", ".", "0", ".", "0", ".", "0", "/", "1", "6">>, <<"1", ".", "1", ".", "0", ".", "0", "/", "1", "6">>, <<"0", ".", "1", "7", ".", "0", ".", "0", "/", "1", "6">>,
    <<"0", ".", "0", ".", "1", ".", "1", "6", "/", "3", "2">>, <<"0", ".", "0", ".", "1", "7", ".", "0", "/", "3", "2">>, <<"1", "0", ".", "1", "0", "0", ".", "0", ".", "0", "/", "1", "6">>,
    <<"1", "0", ".", "1", "0", "0", ".", "0", ".", "0", "/", "2", "5", "5", ".", "2", "5", "5", ".", "0", ".", "0">>, <<"1", "0", ".", "0", ".", "0", ".", "1">>, <<"1", "0", ".", "0", ".", "0", ".", "1", "/", "3", "2">> }

\* every address written without '/' and prefix length
BareTexts == {DottedQuad(a) : a \in Addresses}

CidrTexts ==
  WrittenCidrs \cup OtherTexts \cup OutOfRangeTexts \cup PairTexts \cup BareTexts

(***************************************************************************)
(* get_4via6_address(site_id, ipv4_cidr), statement by statement           *)
(***************************************************************************)
\* a local that no statement has assigned yet
Unassigned == <<"unassigned">>

UnassignedInt == -1

UnassignedNetwork == [network_address |-> <<>>, prefixlen |-> UnassignedInt]

\* the fourth group written with its leading zero
fixed_prefix_Padded == <<"f", "d", "7", "a", ":", "1", "1", "5", "c", ":", "a", "1", "e", "0", ":", "0", "b", "1", "a">>

\* line 5
fixed_prefix == <<"f", "d", "7", "a", ":", "1", "1", "5", "c", ":", "a", "1", "e", "0", ":", "b", "1", "a">>

\* the limits of line 8
MinSiteId == 0

MaxSiteId == 65535

\* line 27
PrefixOffset == 96

\* no invocation has ended yet
NoThreads == <<>>

\* get_4via6_address called by something else than aws/eks/__main__.py
NoProgram ==
  [status |-> "none", at |-> 0, config |-> [kind |-> "missing", value |-> 0],
   SITE |-> 0, declared |-> <<>>, ipv6_cidr |-> Unassigned,
   advertiseRoutes |-> <<>>, error |-> NoException]

NoCall == [call |-> 0, site_id |-> 0, ipv4_cidr |-> <<>>, outcome |-> "none",
           ipv4_network |-> UnassignedNetwork,
           returned |-> Unassigned, raised |-> NoException]

Init ==
  /\ site_id \in SiteIds
  /\ ipv4_cidr \in CidrTexts
  /\ pc = "validate"
  /\ translator_id = Unassigned
  /\ ipv4_network = UnassignedNetwork
  /\ ipv4_address = <<>>
  /\ ipv4_hex = Unassigned
  /\ prefix_length = UnassignedInt
  /\ ipv6_address = Unassigned
  /\ returned = Unassigned
  /\ raised = NoException
  /\ _netmask_cache = <<>>
  /\ calls = 1
  /\ earlier = NoCall
  /\ threads = NoThreads
  /\ program = NoProgram

\* the upper limit taken as exclusive
SiteIdOutOfRange_Exclusive(site) == site < MinSiteId \/ site >= MaxSiteId

\* the condition of line 8
SiteIdOutOfRange(site) == site < MinSiteId \/ site > MaxSiteId

\* the range checked with an assert statement
SiteIdError_Assertion ==
  Exception("AssertionError", "Site ID must be between 0 and 65535 (inclusive)")

\* the exception of line 9
SiteIdError ==
  Exception("ValueError", "Site ID must be between 0 and 65535 (inclusive)")

\* the site id let through unchecked to the statements that follow
ValidateSiteId_Unchecked ==
  /\ pc = "validate"
  /\ raised' = raised
  /\ pc' = "translator"
  /\ UNCHANGED <<site_id, ipv4_cidr, translator_id, ipv4_network, ipv4_address,
                 ipv4_hex, prefix_length, ipv6_address, returned,
                 _netmask_cache, calls, earlier, threads, program>>

\* lines 8-9
ValidateSiteId ==
  /\ pc = "validate"
  /\ IF SiteIdOutOfRange(site_id)
       THEN /\ raised' = SiteIdError
            /\ pc' = "raised"
       ELSE /\ raised' = raised
            /\ pc' = "translator"
  /\ UNCHANGED <<site_id, ipv4_cidr, translator_id, ipv4_network, ipv4_address,
                 ipv4_hex, prefix_length, ipv6_address, returned,
                 _netmask_cache, calls, earlier, threads, program>>

\* the site id written in hexadecimal
translator_id_of_Hex(site) == <<"0", ":">> \o hex(site)

\* line 12
translator_id_of(site) == <<"0", ":">> \o str(site)

AssignTranslatorId ==
  /\ pc = "translator"
  /\ translator_id' = translator_id_of(site_id)
  /\ pc' = "parse"
  /\ UNCHANGED <<site_id, ipv4_cidr, ipv4_network, ipv4_address, ipv4_hex,
                 prefix_length, ipv6_address, returned, raised,
                 _netmask_cache, calls, earlier, threads, program>>

\* line 15 in a try statement whose handler returns what is built so far
ParseNetwork_ReturnsPartial ==
  /\ pc = "parse"
  /\ IF Raised(IPv4Network(ipv4_cidr, _netmask_cache))
       THEN /\ returned' = fixed_prefix \o <<":">> \o translator_id
            /\ pc' = "returned"
            /\ UNCHANGED ipv4_network
       ELSE /\ ipv4_network' = IPv4Network(ipv4_cidr, _netmask_cache).value
            /\ pc' = "address"
            /\ UNCHANGED returned
  /\ _netmask_cache' = IPv4Network(ipv4_cidr, _netmask_cache).cache
  /\ UNCHANGED <<site_id, ipv4_cidr, translator_id, ipv4_address, ipv4_hex,
                 prefix_length, ipv6_address, raised, calls, earlier, threads, program>>

\* line 15 tried again for as long as it raises
ParseNetworkEnds_Retry(net) ==
  /\ _netmask_cache' = net.cache
  /\ IF Raised(net)
       THEN /\ pc' = "parse"
            /\ UNCHANGED <<raised, ipv4_network>>
       ELSE /\ ipv4_network' = net.value
            /\ pc' = "address"
            /\ UNCHANGED raised

\* line 15, the assignment or the exception
ParseNetworkEnds(net) ==
  /\ _netmask_cache' = net.cache
  /\ IF Raised(net)
       THEN /\ raised' = net.exc
            /\ pc' = "raised"
            /\ UNCHANGED ipv4_network
       ELSE /\ ipv4_network' = net.value
            /\ pc' = "address"
            /\ UNCHANGED raised

\* line 15
ParseNetwork ==
  /\ pc = "parse"
  /\ \E net \in {IPv4Network(ipv4_cidr, _netmask_cache)} : ParseNetworkEnds(net)
  /\ UNCHANGED <<site_id, ipv4_cidr, translator_id, ipv4_address, ipv4_hex,
                 prefix_length, ipv6_address, returned, calls, earlier, threads, program>>

\* line 18
NetworkAddress ==
  /\ pc = "address"
  /\ ipv4_address' = ipv4_network.network_address
  /\ pc' = "hex"
  /\ UNCHANGED <<site_id, ipv4_cidr, translator_id, ipv4_network, ipv4_hex,
                 prefix_length, ipv6_address, returned, raised,
                 _netmask_cache, calls, earlier, threads, program>>

\* the low half of the address written before the high half
ipv4_hex_of_LowHalfFirst(address) ==
  format_02x(packed(address, 2)) \o format_02x(packed(address, 3)) \o <<":">>
    \o format_02x(packed(address, 0)) \o format_02x(packed(address, 1))

\* the two bytes of each group written in the other order
ipv4_hex_of_Swapped(address) ==
  format_02x(packed(address, 1)) \o format_02x(packed(address, 0)) \o <<":">>
    \o format_02x(packed(address, 3)) \o format_02x(packed(address, 2))

\* line 21
ipv4_hex_of(address) ==
  format_02x(packed(address, 0)) \o format_02x(packed(address, 1)) \o <<":">>
    \o format_02x(packed(address, 2)) \o format_02x(packed(address, 3))

FormatHex ==
  /\ pc = "hex"
  /\ ipv4_hex' = ipv4_hex_of(ipv4_address)
  /\ pc' = "prefix"
  /\ UNCHANGED <<site_id, ipv4_cidr, translator_id, ipv4_network, ipv4_address,
                 prefix_length, ipv6_address, returned, raised,
                 _netmask_cache, calls, earlier, threads, program>>

\* line 24
PrefixLength ==
  /\ pc = "prefix"
  /\ prefix_length' = ipv4_network.prefixlen
  /\ pc' = "construct"
  /\ UNCHANGED <<site_id, ipv4_cidr, translator_id, ipv4_network, ipv4_address,
                 ipv4_hex, ipv6_address, returned, raised,
                 _netmask_cache, calls, earlier, threads, program>>

\* every result written as a host route
ipv6_address_of_HostRoute(translator, hextets, length) ==
  fixed_prefix \o <<":">> \o translator \o <<":">> \o hextets \o <<"/">>
    \o str(IPV4LENGTH + PrefixOffset)

\* the IPv4 prefix length written as it is
ipv6_address_of_NoOffset(translator, hextets, length) ==
  fixed_prefix \o <<":">> \o translator \o <<":">> \o hextets \o <<"/">>
    \o str(length)

\* line 27
ipv6_address_of(translator, hextets, length) ==
  fixed_prefix \o <<":">> \o translator \o <<":">> \o hextets \o <<"/">>
    \o str(length + PrefixOffset)

Construct ==
  /\ pc = "construct"
  /\ ipv6_address' = ipv6_address_of(translator_id, ipv4_hex, prefix_length)
  /\ pc' = "return"
  /\ UNCHANGED <<site_id, ipv4_cidr, translator_id, ipv4_network, ipv4_address,
                 ipv4_hex, prefix_length, returned, raised,
                 _netmask_cache, calls, earlier, threads, program>>

\* line 29
Return ==
  /\ pc = "return"
  /\ returned' = ipv6_address
  /\ pc' = "returned"
  /\ UNCHANGED <<site_id, ipv4_cidr, translator_id, ipv4_network, ipv4_address,
                 ipv4_hex, prefix_length, ipv6_address, raised,
                 _netmask_cache, calls, earlier, threads, program>>

Next ==
  \/ ValidateSiteId
  \/ AssignTranslatorId
  \/ ParseNetwork
  \/ NetworkAddress
  \/ FormatHex
  \/ PrefixLength
  \/ Construct
  \/ Return

Spec == Init /\ [][Next]_vars

(***************************************************************************)
(* Several invocations, one after the other, in one process: the cache of  *)
(* the ipaddress module is what one invocation leaves to the next          *)
(***************************************************************************)
\* the invocations one process makes
MaxCalls == 3

CallSites == {-1, 1, 10000}

CallTexts ==
  { <<"1", "0", ".", "1", "0", "0", ".", "0", ".", "0", "/", "1", "6">>, <<"1", "9", "2", ".", "1", "6", "8", ".", "0", ".", "0", "/", "1", "6">>, <<"1", "0", ".", "1", "0", "0", ".", "0", ".", "5", "/", "1", "6">>, <<"1", "0", ".", "0", ".", "0", ".", "1", "/", "3", "2">>,
    <<"1", "0", ".", "0", ".", "0", ".", "1">>, <<"1", "0", ".", "1", "0", "0", ".", "0", ".", "0", "/", "2", "5", "5", ".", "2", "5", "5", ".", "0", ".", "0">>, <<"n", "o", "t", "-", "a", "-", "c", "i", "d", "r">> }

InitCalls ==
  /\ Init
  /\ site_id \in CallSites
  /\ ipv4_cidr \in CallTexts

\* the invocation at hand has ended and the caller calls again; what the
\* caller saw of the ended one is kept, or what was kept before is
CallAgain(site, cidr, keep) ==
  /\ pc \in {"returned", "raised"}
  /\ calls < MaxCalls
  /\ calls' = calls + 1
  /\ earlier' = IF keep /\ earlier # NoCall THEN earlier
                ELSE [call |-> calls, site_id |-> site_id, ipv4_cidr |-> ipv4_cidr,
                      ipv4_network |-> ipv4_network,
                      outcome |-> pc, returned |-> returned, raised |-> raised]
  /\ site_id' = site
  /\ ipv4_cidr' = cidr
  /\ pc' = "validate"
  /\ translator_id' = Unassigned
  /\ ipv4_network' = UnassignedNetwork
  /\ ipv4_address' = <<>>
  /\ ipv4_hex' = Unassigned
  /\ prefix_length' = UnassignedInt
  /\ ipv6_address' = Unassigned
  /\ returned' = Unassigned
  /\ raised' = NoException
  /\ UNCHANGED <<_netmask_cache, threads, program>>

NextCalls ==
  \/ Next
  \/ \E site \in CallSites, cidr \in CallTexts, keep \in BOOLEAN :
       CallAgain(site, cidr, keep)

SpecCalls == InitCalls /\ [][NextCalls]_vars

\* two invocations one after the other, what the first returned being kept
PairSites == {0, 1, 10, 65535}

InitPairs ==
  /\ Init
  /\ site_id \in PairSites
  /\ ipv4_cidr \in PairTexts

SecondCall(site, cidr) ==
  /\ calls = 1
  /\ CallAgain(site, cidr, FALSE)

NextPairs ==
  \/ Next
  \/ \E site \in PairSites, cidr \in PairTexts : SecondCall(site, cidr)

SpecPairs == InitPairs /\ [][NextPairs]_vars

\* one invocation that the interpreter keeps running: a statement that can be
\* executed is executed; the function has no statement that waits
SpecFair == Init /\ [][Next]_vars /\ WF_vars(Next)

(***************************************************************************)
(* Invocations in threads: each thread has its frame and runs the          *)
(* statements in order; the class attribute _netmask_cache is the one      *)
(* object they share. Line 15 is taken apart where it touches that         *)
(* attribute: the membership test, the store, and the read that returns.   *)
(***************************************************************************)
NThreads == 2

Threads == 1..NThreads

\* the calls the threads make
ThreadCalls ==
  { <<65536, <<"1", "0", ".", "1", "0", "0", ".", "0", ".", "0", "/", "1", "6">>>>, <<1, <<"1", "0", ".", "1", "0", "0", ".", "0", ".", "0", "/", "1", "6">>>>,
    <<1, <<"1", "0", ".", "1", "0", "0", ".", "0", ".", "5", "/", "1", "6">>>>, <<10000, <<"1", "9", "2", ".", "1", "6", "8", ".", "0", ".", "0", "/", "1", "6">>>>,
    <<1, <<"1", "0", ".", "0", ".", "0", ".", "1">>>>, <<1, <<"1", "0", ".", "0", ".", "0", ".", "0", "/", "8">>>>, <<1, <<"1", "0", ".", "0", ".", "0", ".", "0", "/", "3", "3">>>> }

UnassignedParts == [network_address |-> <<>>, mask |-> IntArg(UnassignedInt)]

\* the frame of get_4via6_address(site_id, ipv4_cidr) as the call begins
Frame(call) ==
  [site_id |-> call[1], ipv4_cidr |-> call[2], pc |-> "validate",
   translator_id |-> Unassigned, parts |-> UnassignedParts,
   ipv4_network |-> UnassignedNetwork, ipv4_address |-> <<>>,
   ipv4_hex |-> Unassigned, prefix_length |-> UnassignedInt,
   ipv6_address |-> Unassigned, returned |-> Unassigned, raised |-> NoException]

InitThreads ==
  /\ threads \in [Threads -> {Frame(call) : call \in ThreadCalls}]
  /\ _netmask_cache = <<>>
  /\ site_id = 0
  /\ ipv4_cidr = <<>>
  /\ pc = "threads"
  /\ translator_id = Unassigned
  /\ ipv4_network = UnassignedNetwork
  /\ ipv4_address = <<>>
  /\ ipv4_hex = Unassigned
  /\ prefix_length = UnassignedInt
  /\ ipv6_address = Unassigned
  /\ returned = Unassigned
  /\ raised = NoException
  /\ calls = 0
  /\ earlier = NoCall
  /\ program = NoProgram

\* a statement of thread t that leaves its frame as f and the cache as cache
ThreadStep(t, f, cache) ==
  /\ threads' = [threads EXCEPT ![t] = f]
  /\ _netmask_cache' = cache
  /\ UNCHANGED <<site_id, ipv4_cidr, pc, translator_id, ipv4_network,
                 ipv4_address, ipv4_hex, prefix_length, ipv6_address, returned,
                 raised, calls, earlier, program>>

FrameRaise(f, exc) == [f EXCEPT !.raised = exc, !.pc = "raised"]

\* lines 8-9
T_ValidateSiteId(t) ==
  /\ threads[t].pc = "validate"
  /\ ThreadStep(t, IF SiteIdOutOfRange(threads[t].site_id)
                     THEN FrameRaise(threads[t], SiteIdError)
                     ELSE [threads[t] EXCEPT !.pc = "translator"],
                _netmask_cache)

\* line 12
T_AssignTranslatorId(t) ==
  /\ threads[t].pc = "translator"
  /\ ThreadStep(t, [threads[t] EXCEPT
                      !.translator_id = translator_id_of(threads[t].site_id),
                      !.pc = "parse"],
                _netmask_cache)

\* IPv4Network.__init__ up to self.network_address = IPv4Address(addr)
SplitAndAddress(parts) ==
  IF Raised(parts) THEN parts
  ELSE IF Raised(_ip_int_from_string(parts.value.addr))
    THEN _ip_int_from_string(parts.value.addr)
  ELSE Ok([network_address |-> _ip_int_from_string(parts.value.addr).value,
           mask |-> parts.value.mask])

FrameParts(f, parts) ==
  IF Raised(parts) THEN FrameRaise(f, parts.exc)
  ELSE [f EXCEPT !.parts = parts.value, !.pc = "netmask"]

\* line 15, before _make_netmask
T_ParseAddress(t) ==
  /\ threads[t].pc = "parse"
  /\ ThreadStep(t, FrameParts(threads[t],
                              SplitAndAddress(_split_addr_prefix(threads[t].ipv4_cidr))),
                _netmask_cache)

\* line 15, _make_netmask: if arg not in cls._netmask_cache
T_NetmaskLookup(t) ==
  /\ threads[t].pc = "netmask"
  /\ ThreadStep(t, [threads[t] EXCEPT
                      !.pc = IF threads[t].parts.mask \in DOMAIN _netmask_cache
                               THEN "netmask_return" ELSE "netmask_store"],
                _netmask_cache)

FrameStored(f, stored) ==
  IF Raised(stored) THEN FrameRaise(f, stored.exc)
  ELSE [f EXCEPT !.pc = "netmask_return"]

\* line 15, _make_netmask: the prefix length is worked out and the entry is
\* stored, whether or not another thread has stored it meanwhile
NetmaskStoreEnds(t, stored) == ThreadStep(t, FrameStored(threads[t], stored), stored.cache)

T_NetmaskStore(t) ==
  /\ threads[t].pc = "netmask_store"
  /\ NetmaskStoreEnds(t, _make_netmask_store(threads[t].parts.mask, _netmask_cache,
                                             _prefixlen_of(threads[t].parts.mask)))

FrameNetwork(f, net) ==
  IF Raised(net) THEN FrameRaise(f, net.exc)
  ELSE [f EXCEPT !.ipv4_network = net.value, !.pc = "address"]

\* line 15, _make_netmask: return cls._netmask_cache[arg], then the host bits
T_NetmaskReturn(t) ==
  /\ threads[t].pc = "netmask_return"
  /\ ThreadStep(t, FrameNetwork(threads[t],
                     IPv4Network_strict(threads[t].parts.network_address,
                       [exc |-> NoException,
                        value |-> CacheGet(_netmask_cache, threads[t].parts.mask),
                        cache |-> _netmask_cache])),
                _netmask_cache)

\* line 18
T_NetworkAddress(t) ==
  /\ threads[t].pc = "address"
  /\ ThreadStep(t, [threads[t] EXCEPT
                      !.ipv4_address = threads[t].ipv4_network.network_address,
                      !.pc = "hex"],
                _netmask_cache)

\* line 21
T_FormatHex(t) ==
  /\ threads[t].pc = "hex"
  /\ ThreadStep(t, [threads[t] EXCEPT
                      !.ipv4_hex = ipv4_hex_of(threads[t].ipv4_address),
                      !.pc = "prefix"],
                _netmask_cache)

\* line 24
T_PrefixLength(t) ==
  /\ threads[t].pc = "prefix"
  /\ ThreadStep(t, [threads[t] EXCEPT
                      !.prefix_length = threads[t].ipv4_network.prefixlen,
                      !.pc = "construct"],
                _netmask_cache)

\* line 27
T_Construct(t) ==
  /\ threads[t].pc = "construct"
  /\ ThreadStep(t, [threads[t] EXCEPT
                      !.ipv6_address = ipv6_address_of(threads[t].translator_id,
                                                       threads[t].ipv4_hex,
                                                       threads[t].prefix_length),
                      !.pc = "return"],
                _netmask_cache)

\* line 29
T_Return(t) ==
  /\ threads[t].pc = "return"
  /\ ThreadStep(t, [threads[t] EXCEPT
                      !.returned = threads[t].ipv6_address,
                      !.pc = "returned"],
                _netmask_cache)

NextThreads ==
  \E t \in Threads :
    \/ T_ValidateSiteId(t)
    \/ T_AssignTranslatorId(t)
    \/ T_ParseAddress(t)
    \/ T_NetmaskLookup(t)
    \/ T_NetmaskStore(t)
    \/ T_NetmaskReturn(t)
    \/ T_NetworkAddress(t)
    \/ T_FormatHex(t)
    \/ T_PrefixLength(t)
    \/ T_Construct(t)
    \/ T_Return(t)

SpecThreads == InitThreads /\ [][NextThreads]_vars

(***************************************************************************)
(* aws/eks/__main__.py: the Pulumi program that calls get_4via6_address.   *)
(* Its top-level statements run in the order they are written; a resource  *)
(* is declared when its constructor is called; an exception that leaves a  *)
(* statement ends the program. `import ip_calc` is the module of           *)
(* eks/ip_calc.py, the invocation modelled above.                          *)
(***************************************************************************)
\* the call of line 188 made before anything is declared
Statements_CallFirst ==
  << "ipv6_cidr", "cluster", "ingress", "provider", "workload", "tailscale_ns",
     "tailscale_operator", "admins", "sandbox", "proxyclass", "service_router" >>

\* the statements from line 44 on that declare a resource, and line 188
Statements ==
  << "cluster", "ingress", "provider", "workload", "tailscale_ns",
     "tailscale_operator", "admins", "sandbox", "ipv6_cidr", "proxyclass",
     "service_router" >>

\* the stack's configuration value "site": an integer, not set, or no integer
SiteConfigs ==
  {[kind |-> "int", value |-> n] : n \in SiteIds}
    \cup {[kind |-> "missing", value |-> 0], [kind |-> "text", value |-> 0]}

InitProgram ==
  /\ program \in {[NoProgram EXCEPT !.status = "running", !.config = c] : c \in SiteConfigs}
  /\ site_id = 0
  /\ ipv4_cidr = <<>>
  /\ pc = "idle"
  /\ translator_id = Unassigned
  /\ ipv4_network = UnassignedNetwork
  /\ ipv4_address = <<>>
  /\ ipv4_hex = Unassigned
  /\ prefix_length = UnassignedInt
  /\ ipv6_address = Unassigned
  /\ returned = Unassigned
  /\ raised = NoException
  /\ _netmask_cache = <<>>
  /\ calls = 0
  /\ earlier = NoCall
  /\ threads = NoThreads

\* a statement of the program that leaves the invocation as it is
ProgramStep(p) ==
  /\ program' = p
  /\ UNCHANGED <<site_id, ipv4_cidr, pc, translator_id, ipv4_network,
                 ipv4_address, ipv4_hex, prefix_length, ipv6_address, returned,
                 raised, _netmask_cache, calls, earlier, threads>>

\* line 37: SITE = CONFIG.require_int("site")
RequireSite ==
  /\ program.status = "running"
  /\ program.at = 0
  /\ ProgramStep(
       IF program.config.kind = "missing"
         THEN [program EXCEPT !.status = "aborted",
                              !.error = Exception("ConfigMissingError", "site")]
       ELSE IF program.config.kind # "int"
         THEN [program EXCEPT !.status = "aborted",
                              !.error = Exception("ConfigTypeError", "site")]
       ELSE [program EXCEPT !.SITE = program.config.value, !.at = 1])

\* lines 44-186 and 190-222: a resource other than the Connector is declared
DeclareResource ==
  /\ program.status = "running"
  /\ program.at \in 1..Len(Statements)
  /\ Statements[program.at] \notin {"ipv6_cidr", "service_router"}
  /\ ProgramStep([program EXCEPT
                    !.declared = Append(program.declared, Statements[program.at]),
                    !.at = program.at + 1])

\* line 188: get_4via6_address(SITE, "10.100.0.0/16") is entered
CallGet4via6Address ==
  /\ program.status = "running"
  /\ program.at \in 1..Len(Statements)
  /\ Statements[program.at] = "ipv6_cidr"
  /\ program' = [program EXCEPT !.status = "calling"]
  /\ site_id' = program.SITE
  /\ ipv4_cidr' = <<"1", "0", ".", "1", "0", "0", ".", "0", ".", "0", "/", "1", "6">>
  /\ pc' = "validate"
  /\ calls' = calls + 1
  /\ UNCHANGED <<translator_id, ipv4_network, ipv4_address, ipv4_hex,
                 prefix_length, ipv6_address, returned, raised, _netmask_cache,
                 earlier, threads>>

\* line 188: ipv6_cidr is bound to what the call returns
CallReturns ==
  /\ program.status = "calling"
  /\ pc = "returned"
  /\ ProgramStep([program EXCEPT !.status = "running",
                                 !.ipv6_cidr = returned,
                                 !.at = program.at + 1])

\* line 188: the exception of the call is not caught and ends the program
CallRaises ==
  /\ program.status = "calling"
  /\ pc = "raised"
  /\ ProgramStep([program EXCEPT !.status = "aborted", !.error = raised])

\* a Connector that advertises the IPv4 range next to the 4via6 route
DeclareConnector_BothRoutes ==
  /\ program.status = "running"
  /\ program.at \in 1..Len(Statements)
  /\ Statements[program.at] = "service_router"
  /\ ProgramStep([program EXCEPT
                    !.declared = Append(program.declared, "service_router"),
                    !.advertiseRoutes = <<program.ipv6_cidr, <<"1", "0", ".", "1", "0", "0", ".", "0", ".", "0", "/", "1", "6">>>>,
                    !.at = program.at + 1])

\* lines 225-236: the Connector, with "advertiseRoutes": [ipv6_cidr]
DeclareConnector ==
  /\ program.status = "running"
  /\ program.at \in 1..Len(Statements)
  /\ Statements[program.at] = "service_router"
  /\ ProgramStep([program EXCEPT
                    !.declared = Append(program.declared, "service_router"),
                    !.advertiseRoutes = <<program.ipv6_cidr>>,
                    !.at = program.at + 1])

NextProgram ==
  \/ Next
  \/ RequireSite
  \/ DeclareResource
  \/ CallGet4via6Address
  \/ CallReturns
  \/ CallRaises
  \/ DeclareConnector

SpecProgram == InitProgram /\ [][NextProgram]_vars

(***************************************************************************)
(* Reading an output text, for the properties below                        *)
(***************************************************************************)
Succeeded == pc = "returned"

Failed == pc = "raised"

SiteIdInRange == 0 <= site_id /\ site_id <= 65535

\* the text before the '/', cut at its colons
OutputGroups(s) == split(split(s, "/")[1], ":")

\* the number written after the '/'
OutputPrefixLength(s) == int10(split(s, "/")[2])

IsHexDigit(c) == \E i \in 1..Len(HexDigits) : HexDigits[i] = c

\* 1 to 4 hexadecimal digits
IsHexGroup(g) == Len(g) \in 1..4 /\ \A i \in 1..Len(g) : IsHexDigit(g[i])

\* an IPv6 CIDR literal in full form: eight groups, '/', a length up to 128
IsIPv6CidrLiteral(s) ==
  /\ Len(split(s, "/")) = 2
  /\ Len(OutputGroups(s)) = 8
  /\ \A i \in 1..8 : IsHexGroup(OutputGroups(s)[i])
  /\ isascii_isdigit(split(s, "/")[2])
  /\ OutputPrefixLength(s) <= 128

\* the number a group of hexadecimal digits denotes
RECURSIVE HexValue(_)
HexValue(g) ==
  IF g = <<>> THEN 0
  ELSE 16 * HexValue(SubSeq(g, 1, Len(g) - 1)) + DigitValue(g[Len(g)])

\* the address a has a bit set beyond its first p bits
HostBitsSet(a, p) == \E i \in (p + 1)..32 : from_bytes(a)[i] = 1

\* the decimal numeral of n in 0..99999, digit by digit
Decimal(n) ==
  LET all == <<DecDigits[((n \div 10000) % 10) + 1],
               DecDigits[((n \div 1000) % 10) + 1],
               DecDigits[((n \div 100) % 10) + 1],
               DecDigits[((n \div 10) % 10) + 1],
               DecDigits[(n % 10) + 1]>>
      first == IF \E i \in 1..4 : all[i] # "0"
                 THEN CHOOSE i \in 1..4 : all[i] # "0" /\ \A j \in 1..(i - 1) : all[j] = "0"
                 ELSE 5
  IN  SubSeq(all, first, 5)

\* a byte as two lowercase hexadecimal digits
TwoHex(b) == <<HexDigits[(b \div 16) + 1], HexDigits[(b % 16) + 1]>>

(***************************************************************************)
(* Properties                                                              *)
(***************************************************************************)
\* C1: every returned text is an IPv6 CIDR literal: eight colon-separated
\* groups of 1 to 4 hexadecimal digits, then '/' and a length of at most 128.
\* The code writes the site id in decimal, so a site id of 10000 or more
\* gives a group of five digits.
C1_OutputIsIPv6CidrLiteral ==
  (Succeeded /\ SiteIdInRange /\ ipv4_cidr \in WrittenCidrs)
    => IsIPv6CidrLiteral(returned)

\* C2: a returned text ends in '/' and the prefix length of the parsed
\* network plus 96, which lies in 96..128; for a text written as
\* address/p that is p + 96.
C2_OutputPrefixLength ==
  Succeeded =>
    /\ OutputPrefixLength(returned) = ipv4_network.prefixlen + 96
    /\ OutputPrefixLength(returned) \in 96..128
    /\ \A a \in Addresses, p \in PrefixLengths :
         ipv4_cidr = CidrText(a, p) => OutputPrefixLength(returned) = p + 96

C2_Witness ==
  /\ Succeeded
  /\ ipv4_cidr = <<"1", "9", "2", ".", "1", "6", "8", ".", "0", ".", "0", "/", "2", "4">>
  /\ OutputPrefixLength(returned) = 120

\* C3 as claimed: a text whose address has host bits set beyond the prefix
\* length is accepted, and the text returned is the one for the network with
\* the host bits cleared (10.100.0.5/16 gives what 10.100.0.0/16 gives).
C3_HostBitsNormalised ==
  ((Succeeded \/ Failed) /\ SiteIdInRange /\ ipv4_cidr = <<"1", "0", ".", "1", "0", "0", ".", "0", ".", "5", "/", "1", "6">>)
    => /\ Succeeded
       /\ returned = fixed_prefix \o <<":", "0", ":">> \o Decimal(site_id) \o <<":", "0", "a", "6", "4", ":", "0", "0", "0", "0", "/", "1", "1", "2">>

\* C3 as amended: for a site id in range, a text address/p whose address has
\* host bits set beyond p is refused: the call raises ValueError at line 15
\* (IPv4Network in its default strict mode), no network is built and no text
\* is returned.
C3_HostBitsRefused ==
  (SiteIdInRange
     /\ \/ \E a \in Addresses, p \in PrefixLengths :
             ipv4_cidr = CidrText(a, p) /\ HostBitsSet(a, p)
        \/ ipv4_cidr = <<"1", "0", ".", "1", "0", "0", ".", "0", ".", "5", "/", "2", "5", "5", ".", "2", "5", "5", ".", "0", ".", "0">>)
    => /\ pc \in {"validate", "translator", "parse", "raised"}
       /\ returned = Unassigned
       /\ ipv4_network = UnassignedNetwork
       /\ Failed => raised = Exception("ValueError", "has host bits set")

C3_Witness ==
  /\ Failed
  /\ site_id = 1
  /\ ipv4_cidr = <<"1", "0", ".", "1", "0", "0", ".", "0", ".", "5", "/", "1", "6">>
  /\ raised.type = "ValueError"

\* C4: with a site id of 0 or of 65535 and a well-formed text the call never
\* raises, and returns a text; with a site id below 0 or above 65535 it
\* raises ValueError at line 9 whatever the text is, before any local is
\* assigned, and returns nothing.
C4_SiteIdLimits ==
  /\ (site_id \in {0, 65535}
        /\ \E a \in Addresses, p \in PrefixLengths :
             ipv4_cidr = CidrText(a, p) /\ ~HostBitsSet(a, p))
       => /\ ~Failed
          /\ raised = NoException
          /\ Succeeded <=> returned # Unassigned
  /\ (site_id < 0 \/ site_id > 65535)
       => /\ pc \in {"validate", "raised"}
          /\ Failed => raised = Exception("ValueError",
                                          "Site ID must be between 0 and 65535 (inclusive)")
          /\ translator_id = Unassigned
          /\ returned = Unassigned

C4_Witness ==
  /\ Succeeded
  /\ site_id = 65535
  /\ ipv4_cidr = <<"1", "0", ".", "0", ".", "0", ".", "1", "/", "3", "2">>
  /\ returned = <<"f", "d", "7", "a", ":", "1", "1", "5", "c", ":", "a", "1", "e", "0", ":", "b", "1", "a", ":", "0", ":", "6", "5", "5", "3", "5", ":", "0", "a", "0", "0", ":", "0", "0", "0", "1", "/", "1", "2", "8">>

\* texts that are no IPv4 network: no dotted quad, an octet that is empty,
\* not a number or above 255, a prefix length that is missing, not a number
\* or above 32, a mask that mixes ones and zeroes, a second '/'
MalformedTexts ==
  { <<"n", "o", "t", "-", "a", "-", "c", "i", "d", "r">>, <<>>, <<"1", "0", ".", "1", "0", "0", ".", "0", ".", "0", "/">>, <<"/", "1", "6">>, <<"1", "0", ".", "1", "0", "0", ".", "0", ".", "0", "/", "1", "6", "/", "1", "6">>,
    <<"1", "0", ".", "1", "0", "0", ".", "0", "/", "1", "6">>, <<"1", "0", ".", ".", "0", ".", "0", "/", "1", "6">>, <<"1", "0", ".", "a", ".", "0", ".", "0", "/", "1", "6">>, <<"2", "5", "6", ".", "0", ".", "0", ".", "0", "/", "8">>,
    <<"1", "0", "0", "0", ".", "0", ".", "0", ".", "0", "/", "8">>, <<"1", "0", ".", "0", ".", "0", ".", "0", "/", "3", "3">>, <<"1", "0", ".", "0", ".", "0", ".", "0", "/", "-", "1">>, <<"1", "0", ".", "0", ".", "0", ".", "0", "/", "x">>,
    <<"1", "0", ".", "1", "0", "0", ".", "0", ".", "0", "/", "2", "5", "5", ".", "0", ".", "2", "5", "5", ".", "0">> }

\* C5: for a site id in range and a text that is no IPv4 network, the call
\* raises ValueError (or a subclass of it) at line 15 and returns nothing.
C5_MalformedCidrRaises ==
  (SiteIdInRange /\ ipv4_cidr \in MalformedTexts)
    => /\ pc \in {"validate", "translator", "parse", "raised"}
       /\ Failed => IsValueError(raised)
       /\ returned = Unassigned
       /\ ipv6_address = Unassigned

C5_Witness ==
  /\ Failed
  /\ site_id = 1
  /\ ipv4_cidr = <<"n", "o", "t", "-", "a", "-", "c", "i", "d", "r">>
  /\ IsValueError(raised)

\* C6: the text returned is "fd7a:115c:a1e0:b1a" ":0:" <site id in decimal>
\* ":" <hextet 1> ":" <hextet 2> "/" <p + 96>; (1, 10.100.0.0/16) and
\* (0, 192.168.0.0/24) give the two texts of the specification; the first five
\* groups are fd7a, 115c, a1e0, b1a, 0 for every input.  A mask written as a
\* netmask or a hostmask, a prefix length written 08 and a missing prefix
\* length give the text of the prefix length they stand for.
C6_ExactOutput ==
  Succeeded =>
    /\ \A a \in Addresses, p \in PrefixLengths :
         ipv4_cidr = CidrText(a, p) =>
           returned = <<"f", "d", "7", "a", ":", "1", "1", "5", "c", ":", "a", "1", "e", "0", ":", "b", "1", "a">> \o <<":", "0", ":">> \o Decimal(site_id) \o <<":">>
                        \o TwoHex(a[1]) \o TwoHex(a[2]) \o <<":">>
                        \o TwoHex(a[3]) \o TwoHex(a[4]) \o <<"/">> \o Decimal(p + 96)
    /\ ipv4_cidr \in {<<"1", "0", ".", "1", "0", "0", ".", "0", ".", "0", "/", "2", "5", "5", ".", "2", "5", "5", ".", "0", ".", "0">>, <<"1", "0", ".", "1", "0", "0", ".", "0", ".", "0", "/", "0", ".", "0", ".", "2", "5", "5", ".", "2", "5", "5">>}
         => returned = <<"f", "d", "7", "a", ":", "1", "1", "5", "c", ":", "a", "1", "e", "0", ":", "b", "1", "a", ":", "0", ":">> \o Decimal(site_id) \o <<":", "0", "a", "6", "4", ":", "0", "0", "0", "0", "/", "1", "1", "2">>
    /\ ipv4_cidr = <<"1", "0", ".", "0", ".", "0", ".", "0", "/", "0", "8">>
         => returned = <<"f", "d", "7", "a", ":", "1", "1", "5", "c", ":", "a", "1", "e", "0", ":", "b", "1", "a", ":", "0", ":">> \o Decimal(site_id) \o <<":", "0", "a", "0", "0", ":", "0", "0", "0", "0", "/", "1", "0", "4">>
    /\ ipv4_cidr = <<"1", "0", ".", "0", ".", "0", ".", "1">>
         => returned = <<"f", "d", "7", "a", ":", "1", "1", "5", "c", ":", "a", "1", "e", "0", ":", "b", "1", "a", ":", "0", ":">> \o Decimal(site_id) \o <<":", "0", "a", "0", "0", ":", "0", "0", "0", "1", "/", "1", "2", "8">>
    /\ (site_id = 1 /\ ipv4_cidr = <<"1", "0", ".", "1", "0", "0", ".", "0", ".", "0", "/", "1", "6">>)
         => returned = <<"f", "d", "7", "a", ":", "1", "1", "5", "c", ":", "a", "1", "e", "0", ":", "b", "1", "a", ":", "0", ":", "1", ":", "0", "a", "6", "4", ":", "0", "0", "0", "0", "/", "1", "1", "2">>
    /\ (site_id = 0 /\ ipv4_cidr = <<"1", "9", "2", ".", "1", "6", "8", ".", "0", ".", "0", "/", "2", "4">>)
         => returned = <<"f", "d", "7", "a", ":", "1", "1", "5", "c", ":", "a", "1", "e", "0", ":", "b", "1", "a", ":", "0", ":", "0", ":", "c", "0", "a", "8", ":", "0", "0", "0", "0", "/", "1", "2", "0">>
    /\ SubSeq(OutputGroups(returned), 1, 5) = <<<<"f", "d", "7", "a">>, <<"1", "1", "5", "c">>, <<"a", "1", "e", "0">>, <<"b", "1", "a">>, <<"0">>>>

C6_Witness ==
  /\ Succeeded
  /\ site_id = 1
  /\ ipv4_cidr = <<"1", "0", ".", "1", "0", "0", ".", "0", ".", "0", "/", "1", "6">>
  /\ returned = <<"f", "d", "7", "a", ":", "1", "1", "5", "c", ":", "a", "1", "e", "0", ":", "b", "1", "a", ":", "0", ":", "1", ":", "0", "a", "6", "4", ":", "0", "0", "0", "0", "/", "1", "1", "2">>

\* C7: the IPv4 part of the text returned is two groups of exactly four
\* lowercase hexadecimal digits: the bytes b0 b1 and b2 b3 of the network
\* address, each as two digits with its leading zero kept.
C7_HextetsOfBytes ==
  Succeeded =>
    /\ Len(OutputGroups(returned)) = 8
    /\ Len(OutputGroups(returned)[7]) = 4
    /\ Len(OutputGroups(returned)[8]) = 4
    /\ \A i \in 1..4 : IsHexDigit(OutputGroups(returned)[7][i])
                         /\ IsHexDigit(OutputGroups(returned)[8][i])
    /\ \A a \in Addresses, p \in PrefixLengths :
         ipv4_cidr = CidrText(a, p) =>
           /\ OutputGroups(returned)[7] = TwoHex(a[1]) \o TwoHex(a[2])
           /\ OutputGroups(returned)[8] = TwoHex(a[3]) \o TwoHex(a[4])

C7_Witness ==
  /\ Succeeded
  /\ ipv4_cidr = <<"1", "7", "1", ".", "2", "0", "5", ".", "2", "3", "9", ".", "0", "/", "2", "4">>
  /\ OutputGroups(returned)[7] = <<"a", "b", "c", "d">>
  /\ OutputGroups(returned)[8] = <<"e", "f", "0", "0">>

\* C8: the site field of the text returned is "0:" and the site id in decimal
\* without padding, right after the fixed prefix and right before the two
\* IPv4 hextets.
C8_SiteFieldDecimal ==
  Succeeded =>
    /\ Len(OutputGroups(returned)) = 8
    /\ SubSeq(OutputGroups(returned), 1, 4) = <<<<"f", "d", "7", "a">>, <<"1", "1", "5", "c">>, <<"a", "1", "e", "0">>, <<"b", "1", "a">>>>
    /\ OutputGroups(returned)[5] = <<"0">>
    /\ OutputGroups(returned)[6] = Decimal(site_id)
    /\ translator_id = <<"0", ":">> \o Decimal(site_id)

C8_Witness ==
  /\ Succeeded
  /\ site_id = 4095
  /\ OutputGroups(returned)[6] = <<"4", "0", "9", "5">>

\* C9: read as an IPv6 address, the text returned carries the site id as the
\* number of its 32-bit translator field, the fifth and sixth groups.  The
\* code writes the decimal digits of the site id, which read as hexadecimal
\* are another number from 10 on.
C9_TranslatorFieldIsSiteId ==
  (Succeeded /\ SiteIdInRange /\ ipv4_cidr \in WrittenCidrs)
    => 65536 * HexValue(OutputGroups(returned)[5])
         + HexValue(OutputGroups(returned)[6]) = site_id

\* C10: an invocation that ends after an earlier one with the same site id
\* and the same text ends the same way: the same text returned, or the same
\* exception raised, whatever was called in between and whatever the cache
\* of the ipaddress module holds by then.
C10_Deterministic ==
  ((Succeeded \/ Failed) /\ earlier # NoCall
     /\ earlier.site_id = site_id /\ earlier.ipv4_cidr = ipv4_cidr)
    => /\ earlier.outcome = pc
       /\ earlier.returned = returned
       /\ earlier.raised = raised

\* the first and the third invocation have the same arguments, and the one
\* in between left its own entry in the cache
C10_Witness ==
  /\ Succeeded
  /\ calls = 3
  /\ earlier.call = 1
  /\ earlier.site_id = site_id
  /\ earlier.ipv4_cidr = ipv4_cidr
  /\ ipv4_cidr = <<"1", "0", ".", "0", ".", "0", ".", "1", "/", "3", "2">>
  /\ StrArg(<<"1", "6">>) \in DOMAIN _netmask_cache

\* C11: with a site id in range, 0.0.0.0/0 and 10.0.0.1/32 do not raise: the
\* text returned for the prefix length 0 ends in /96 and the one for the
\* prefix length 32 in /128.
C11_PrefixLengthLimits ==
  SiteIdInRange =>
    /\ ipv4_cidr = <<"0", ".", "0", ".", "0", ".", "0", "/", "0">>
         => /\ ~Failed
            /\ Succeeded => /\ OutputPrefixLength(returned) = 96
                            /\ SubSeq(returned, Len(returned) - 11, Len(returned))
                                 = <<"0", "0", "0", "0", ":", "0", "0", "0", "0", "/", "9", "6">>
    /\ ipv4_cidr = <<"1", "0", ".", "0", ".", "0", ".", "1", "/", "3", "2">>
         => /\ ~Failed
            /\ Succeeded => /\ OutputPrefixLength(returned) = 128
                            /\ SubSeq(returned, Len(returned) - 12, Len(returned))
                                 = <<"0", "a", "0", "0", ":", "0", "0", "0", "1", "/", "1", "2", "8">>

C11_Witness ==
  /\ Succeeded
  /\ site_id = 1
  /\ ipv4_cidr = <<"0", ".", "0", ".", "0", ".", "0", "/", "0">>
  /\ returned = <<"f", "d", "7", "a", ":", "1", "1", "5", "c", ":", "a", "1", "e", "0", ":", "b", "1", "a", ":", "0", ":", "1", ":", "0", "0", "0", "0", ":", "0", "0", "0", "0", "/", "9", "6">>

\* the text before the first "/" and its dot-separated fields, and the text
\* after the "/" when there is exactly one
AddressFields(text) == split(split(text, "/")[1], ".")

IsNumeral(t) == t # <<>> /\ \A i \in 1..Len(t) : t[i] \in {DecDigits[d] : d \in 1..10}

IsSignedNumeral(t) ==
  \/ IsNumeral(t)
  \/ Len(t) > 1 /\ t[1] = "-" /\ IsNumeral(Tail(t))

NonNumericOctet(text) == \E k \in 1..Len(AddressFields(text)) : ~IsNumeral(AddressFields(text)[k])

OctetAbove255(text) ==
  \E k \in 1..Len(AddressFields(text)) :
    /\ IsNumeral(AddressFields(text)[k])
    /\ Len(AddressFields(text)[k]) <= 4
    /\ int10(AddressFields(text)[k]) > 255

PrefixLengthOutside(text) ==
  /\ Len(split(text, "/")) = 2
  /\ IsSignedNumeral(split(text, "/")[2])
  /\ \/ split(text, "/")[2][1] = "-"
     \/ int10(split(text, "/")[2]) > 32

\* C12: a text that has an octet which is no decimal numeral, an octet above
\* 255, or a prefix length below 0 or above 32 is refused where it is parsed:
\* the call raises ValueError or one of its two subclasses, no network and no
\* result text is ever produced.
C12_OutOfRangeCidrRefused ==
  (/\ SiteIdInRange
   /\ \/ NonNumericOctet(ipv4_cidr)
      \/ OctetAbove255(ipv4_cidr)
      \/ PrefixLengthOutside(ipv4_cidr))
    => /\ ~Succeeded
       /\ pc \notin {"address", "hex", "prefix", "construct", "return"}
       /\ ipv4_network = UnassignedNetwork
       /\ ipv6_address = Unassigned /\ returned = Unassigned
       /\ Failed => raised.type \in {"ValueError", "AddressValueError", "NetmaskValueError"}

C12_Witness ==
  /\ Failed
  /\ site_id = 255
  /\ ipv4_cidr = <<"1", "0", ".", "1", "0", "0", ".", "0", ".", "2", "5", "6", "/", "1", "6">>
  /\ OctetAbove255(ipv4_cidr) /\ ~NonNumericOctet(ipv4_cidr) /\ ~PrefixLengthOutside(ipv4_cidr)
  /\ raised.type = "AddressValueError"

\* C13 as stated: for a site id in range, every text made of a dotted quad,
\* "/" and a prefix length of 0..32 is accepted: the call never raises.
C13_TotalOnWrittenCidrs ==
  (SiteIdInRange /\ ipv4_cidr \in WrittenCidrs)
    => /\ ~Failed
       /\ raised = NoException

\* C13 as amended: for a site id in range and a text a.b.c.d/p whose octets
\* are decimal numerals of 0..255 without leading zeros, whose p is in 0..32
\* and whose address has no bit set beyond the first p, the call never
\* raises, and what it returns is a text.
C13_TotalOnNetworks ==
  \A a \in Addresses, p \in PrefixLengths :
    (SiteIdInRange /\ ipv4_cidr = CidrText(a, p) /\ ~HostBitsSet(a, p))
      => /\ ~Failed
         /\ raised = NoException
         /\ pc \in {"validate", "translator", "parse", "address", "hex",
                    "prefix", "construct", "return", "returned"}
         /\ Succeeded => /\ returned = ipv6_address
                         /\ returned # Unassigned
                         /\ Len(returned) >= Len(<<"f", "d", "7", "a", ":", "1", "1", "5", "c", ":", "a", "1", "e", "0", ":", "b", "1", "a", ":", "0", ":", "0", ":", "0", "0", "0", "0", ":", "0", "0", "0", "0", "/", "9", "6">>)
         /\ ~Succeeded => returned = Unassigned

C13_Witness ==
  /\ Succeeded
  /\ site_id = 9999
  /\ ipv4_cidr = <<"2", "5", "5", ".", "2", "5", "5", ".", "2", "5", "5", ".", "2", "5", "5", "/", "3", "2">>
  /\ returned = <<"f", "d", "7", "a", ":", "1", "1", "5", "c", ":", "a", "1", "e", "0", ":", "b", "1", "a", ":", "0", ":", "9", "9", "9", "9", ":", "f", "f", "f", "f", ":", "f", "f", "f", "f", "/", "1", "2", "8">>

\* C14: whatever the integer site id and the text, a call that fails raises
\* ValueError or one of its subclasses AddressValueError and
\* NetmaskValueError, which `except ValueError` catches alike: the site id
\* out of range raises ValueError itself, a text refused at line 15 one of
\* the three. The exception is there in the very state where the call has
\* ended, nothing is returned with it, and no other kind of exception occurs.
C14_OneErrorKind ==
  /\ raised # NoException <=> Failed
  /\ Failed =>
       /\ raised.type \in {"ValueError", "AddressValueError", "NetmaskValueError"}
       /\ IsValueError(raised)
       /\ returned = Unassigned
       /\ ~SiteIdInRange => raised.type = "ValueError"
       /\ SiteIdInRange => /\ translator_id # Unassigned
                           /\ ipv4_network = UnassignedNetwork
  /\ ~Failed => raised.type = "None"

C14_Witness ==
  /\ Failed
  /\ site_id = 65536
  /\ ipv4_cidr = <<"1", "0", ".", "1", "0", "0", ".", "0", ".", "0", "/", "1", "6">>
  /\ raised.type = "ValueError"
  /\ IsValueError(raised)

\* what a caller sees of the call when nothing else runs: the text returned,
\* or the class of the exception
AloneReturns(site, cidr) ==
  CASE site = 1 /\ cidr = <<"1", "0", ".", "1", "0", "0", ".", "0", ".", "0", "/", "1", "6">> -> <<"f", "d", "7", "a", ":", "1", "1", "5", "c", ":", "a", "1", "e", "0", ":", "b", "1", "a", ":", "0", ":", "1", ":", "0", "a", "6", "4", ":", "0", "0", "0", "0", "/", "1", "1", "2">>
    [] site = 10000 /\ cidr = <<"1", "9", "2", ".", "1", "6", "8", ".", "0", ".", "0", "/", "1", "6">> -> <<"f", "d", "7", "a", ":", "1", "1", "5", "c", ":", "a", "1", "e", "0", ":", "b", "1", "a", ":", "0", ":", "1", "0", "0", "0", "0", ":", "c", "0", "a", "8", ":", "0", "0", "0", "0", "/", "1", "1", "2">>
    [] site = 1 /\ cidr = <<"1", "0", ".", "0", ".", "0", ".", "1">> -> <<"f", "d", "7", "a", ":", "1", "1", "5", "c", ":", "a", "1", "e", "0", ":", "b", "1", "a", ":", "0", ":", "1", ":", "0", "a", "0", "0", ":", "0", "0", "0", "1", "/", "1", "2", "8">>
    [] site = 1 /\ cidr = <<"1", "0", ".", "0", ".", "0", ".", "0", "/", "8">> -> <<"f", "d", "7", "a", ":", "1", "1", "5", "c", ":", "a", "1", "e", "0", ":", "b", "1", "a", ":", "0", ":", "1", ":", "0", "a", "0", "0", ":", "0", "0", "0", "0", "/", "1", "0", "4">>
    [] OTHER -> Unassigned

AloneRaises(site, cidr) ==
  CASE site = 65536 -> "ValueError"
    [] site = 1 /\ cidr = <<"1", "0", ".", "1", "0", "0", ".", "0", ".", "5", "/", "1", "6">> -> "ValueError"
    [] site = 1 /\ cidr = <<"1", "0", ".", "0", ".", "0", ".", "0", "/", "3", "3">> -> "NetmaskValueError"
    [] OTHER -> "None"

ThreadEnded(t) == threads[t].pc \in {"returned", "raised"}

SameAsAlone ==
  \A t \in Threads :
    /\ threads[t].returned \in {Unassigned, AloneReturns(threads[t].site_id, threads[t].ipv4_cidr)}
    /\ threads[t].raised.type \in {"None", AloneRaises(threads[t].site_id, threads[t].ipv4_cidr)}
    /\ ThreadEnded(t) =>
         /\ threads[t].returned = AloneReturns(threads[t].site_id, threads[t].ipv4_cidr)
         /\ threads[t].raised.type = AloneRaises(threads[t].site_id, threads[t].ipv4_cidr)
         /\ (threads[t].pc = "returned") <=> (threads[t].returned # Unassigned)

\* C15 as stated: under every interleaving each invocation has the outcome it
\* has alone, and no state that the invocations share is ever written.
C15_NoSharedState ==
  /\ SameAsAlone
  /\ _netmask_cache = <<>>

\* C15 as amended: under every interleaving of the threads' statements, each
\* invocation has the outcome it has alone. The invocations share one piece
\* of state, ipaddress's _netmask_cache, which line 15 reads and writes; an
\* entry of it depends on its key alone, so whichever thread stored it, the
\* thread that reads it gets the netmask and prefix length of its own text.
C15_ThreadsSameAsAlone ==
  /\ SameAsAlone
  /\ \A k \in DOMAIN _netmask_cache :
       /\ _netmask_cache[k].prefixlen \in 0..32
       /\ k.kind = "int" => _netmask_cache[k].prefixlen = k.number
       /\ k.kind = "str" => Decimal(_netmask_cache[k].prefixlen) = k.text
       /\ \A i \in 1..32 :
            _netmask_cache[k].netmask[i] = IF i <= _netmask_cache[k].prefixlen THEN 1 ELSE 0

\* two threads have both found the key "16" missing, one has stored its entry
\* and ended, the other has read an entry and ended too
C15_Witness ==
  /\ threads[1].site_id = 1 /\ threads[1].ipv4_cidr = <<"1", "0", ".", "1", "0", "0", ".", "0", ".", "0", "/", "1", "6">>
  /\ threads[2].site_id = 10000 /\ threads[2].ipv4_cidr = <<"1", "9", "2", ".", "1", "6", "8", ".", "0", ".", "0", "/", "1", "6">>
  /\ threads[1].pc = "returned"
  /\ threads[2].pc = "netmask_store"
  /\ StrArg(<<"1", "6">>) \in DOMAIN _netmask_cache

\* C16: when the site id is out of range and the text is one that line 15
\* refuses, the call raises the ValueError of line 9: line 15 is never
\* reached, so no network is parsed, nothing enters the netmask cache, and
\* none of the exceptions of the parser is seen.
C16_SiteIdCheckedFirst ==
  (/\ ~SiteIdInRange
   /\ \/ ipv4_cidr \in MalformedTexts
      \/ NonNumericOctet(ipv4_cidr) \/ OctetAbove255(ipv4_cidr)
      \/ PrefixLengthOutside(ipv4_cidr)
      \/ \E a \in Addresses, p \in PrefixLengths :
           ipv4_cidr = CidrText(a, p) /\ HostBitsSet(a, p))
    => /\ pc \in {"validate", "raised"}
       /\ Failed => /\ raised.type = "ValueError"
                    /\ raised.why = "Site ID must be between 0 and 65535 (inclusive)"
       /\ translator_id = Unassigned
       /\ ipv4_network = UnassignedNetwork
       /\ _netmask_cache = <<>>

C16_Witness ==
  /\ Failed
  /\ site_id = -1
  /\ ipv4_cidr = <<"1", "0", ".", "0", ".", "0", ".", "0", "/", "3", "3">>
  /\ raised.why = "Site ID must be between 0 and 65535 (inclusive)"
  /\ _netmask_cache = <<>>

\* a text handed to the caller is whole: eight groups, "/" and a prefix length
CompleteResult(s) ==
  /\ s # Unassigned
  /\ Len(split(s, "/")) = 2
  /\ Len(OutputGroups(s)) = 8
  /\ IsNumeral(split(s, "/")[2])
  /\ OutputPrefixLength(s) \in 96..128

\* how an invocation's step leaves what it must: the call ends with a whole
\* text or with an exception and nothing else, and the arguments are the same
AllOrNothing ==
  /\ site_id' = site_id /\ ipv4_cidr' = ipv4_cidr
  /\ earlier' = earlier
  /\ pc' = "returned" => /\ CompleteResult(returned')
                         /\ returned' = ipv6_address'
                         /\ raised' = NoException
  /\ pc' = "raised" => /\ raised' # NoException
                       /\ returned' = Unassigned
                       /\ ipv6_address' = Unassigned
  /\ pc' # "returned" => returned' = Unassigned

\* C17 as stated: every step of an invocation leaves the arguments and all
\* state outside the invocation as they were, and the invocation ends with
\* one whole text or with an exception and no part of a text.
C17_NoSideEffect ==
  [][calls' = calls => (AllOrNothing /\ _netmask_cache' = _netmask_cache)]_vars

\* C17 as amended: every step of an invocation leaves the arguments as they
\* were, and the invocation ends with one whole text or with an exception and
\* no part of a text; outside the invocation only ipaddress's _netmask_cache
\* changes, at line 15 alone, by gaining at most one entry while the entries
\* it has stay as they are.
C17_AllOrNothingButCache ==
  [][calls' = calls =>
       /\ AllOrNothing
       /\ _netmask_cache' # _netmask_cache => pc = "parse"
       /\ DOMAIN _netmask_cache \subseteq DOMAIN _netmask_cache'
       /\ \A k \in DOMAIN _netmask_cache : _netmask_cache'[k] = _netmask_cache[k]
       /\ Cardinality(DOMAIN _netmask_cache' \ DOMAIN _netmask_cache) <= 1]_vars

\* a second invocation has failed at line 15 after it added an entry to the
\* cache the first one left
C17_Witness ==
  /\ Failed
  /\ calls = 2
  /\ site_id = 1
  /\ ipv4_cidr = <<"1", "0", ".", "1", "0", "0", ".", "0", ".", "5", "/", "1", "6">>
  /\ earlier.ipv4_cidr = <<"1", "0", ".", "0", ".", "0", ".", "1">>
  /\ Cardinality(DOMAIN _netmask_cache) = 2
  /\ returned = Unassigned

\* how far down the function body a statement is; the two ends come last
StatementRank(label) ==
  CASE label = "validate" -> 0
    [] label = "translator" -> 1
    [] label = "parse" -> 2
    [] label = "address" -> 3
    [] label = "hex" -> 4
    [] label = "prefix" -> 5
    [] label = "construct" -> 6
    [] label = "return" -> 7
    [] label \in {"returned", "raised"} -> 8

\* C18: every invocation ends, returned or raised, and it does so within 8
\* steps: each step goes further down the function body, none is taken twice,
\* and none waits for anything.
C18_Terminates ==
  /\ <>(Succeeded \/ Failed)
  /\ [][StatementRank(pc') > StatementRank(pc)]_vars

C18_Witness ==
  /\ Succeeded
  /\ site_id = 4095
  /\ ipv4_cidr = <<"1", "7", "1", ".", "2", "0", "5", ".", "2", "3", "9", ".", "0", "/", "2", "4">>
  /\ StatementRank(pc) = 8

\* C19: two invocations that both return, and whose site ids, network
\* addresses or prefix lengths differ, return different texts.
C19_Injective ==
  (/\ Succeeded
   /\ earlier.outcome = "returned"
   /\ \/ site_id # earlier.site_id
      \/ ipv4_network.network_address # earlier.ipv4_network.network_address
      \/ ipv4_network.prefixlen # earlier.ipv4_network.prefixlen)
    => returned # earlier.returned

C19_Witness ==
  /\ Succeeded
  /\ calls = 2
  /\ earlier.outcome = "returned"
  /\ site_id = 1 /\ earlier.site_id = 1
  /\ ipv4_cidr = <<"1", "0", ".", "0", ".", "0", ".", "0", "/", "1", "6">> /\ earlier.ipv4_cidr = <<"1", "0", ".", "0", ".", "0", ".", "0", "/", "8">>
  /\ ipv4_network.network_address = earlier.ipv4_network.network_address
  /\ ipv4_network.prefixlen # earlier.ipv4_network.prefixlen
  /\ returned # earlier.returned

\* what a reader gets back from a returned text: the sixth group read as a
\* decimal number, the seventh and eighth groups read as two hexadecimal byte
\* pairs each, and the number after the "/" less 96
DecodedSiteId(s) == int10(OutputGroups(s)[6])

DecodedBytes(s) ==
  << HexValue(SubSeq(OutputGroups(s)[7], 1, 2)), HexValue(SubSeq(OutputGroups(s)[7], 3, 4)),
     HexValue(SubSeq(OutputGroups(s)[8], 1, 2)), HexValue(SubSeq(OutputGroups(s)[8], 3, 4)) >>

DecodedPrefixLength(s) == OutputPrefixLength(s) - 96

\* C20: a returned text gives back what it was made from: the site id, the
\* four bytes of the network address, and the IPv4 prefix length.
C20_RoundTrip ==
  Succeeded =>
    /\ Len(OutputGroups(returned)) = 8
    /\ IsNumeral(OutputGroups(returned)[6])
    /\ Len(OutputGroups(returned)[7]) = 4 /\ Len(OutputGroups(returned)[8]) = 4
    /\ DecodedSiteId(returned) = site_id
    /\ DecodedBytes(returned) = [k \in 1..4 |-> packed(ipv4_network.network_address, k - 1)]
    /\ DecodedPrefixLength(returned) = ipv4_network.prefixlen
    /\ \A a \in Addresses, p \in PrefixLengths :
         ipv4_cidr = CidrText(a, p)
           => DecodedBytes(returned) = a /\ DecodedPrefixLength(returned) = p

C20_Witness ==
  /\ Succeeded
  /\ site_id = 255
  /\ ipv4_cidr = <<"1", "7", "1", ".", "2", "0", "5", ".", "2", "3", "9", ".", "0", "/", "2", "4">>
  /\ returned = <<"f", "d", "7", "a", ":", "1", "1", "5", "c", ":", "a", "1", "e", "0", ":", "b", "1", "a", ":", "0", ":", "2", "5", "5", ":", "a", "b", "c", "d", ":", "e", "f", "0", "0", "/", "1", "2", "0">>
  /\ DecodedSiteId(returned) = 255
  /\ DecodedBytes(returned) = <<171, 205, 239, 0>>
  /\ DecodedPrefixLength(returned) = 24

\* the 32 bits written in the last two groups of a returned text, the first
\* bit being the highest
DecodedBits(s) ==
  [i \in 1..32 |-> (DecodedBytes(s)[((i - 1) \div 8) + 1] \div (2 ^ (7 - ((i - 1) % 8)))) % 2]

\* C21: in every returned text, whose prefix length is p + 96, the 32-bit
\* value of the last two groups has no bit set after its first p bits.
C21_NoHostBits ==
  Succeeded =>
    /\ DecodedPrefixLength(returned) \in 0..32
    /\ \A i \in 1..32 :
         i > DecodedPrefixLength(returned) => DecodedBits(returned)[i] = 0
    /\ \A a \in Addresses, p \in PrefixLengths :
         ipv4_cidr = CidrText(a, p)
           => /\ DecodedPrefixLength(returned) = p
              /\ ~HostBitsSet(a, p)

C21_Witness ==
  /\ Succeeded
  /\ site_id = 10
  /\ ipv4_cidr = <<"1", "2", "8", ".", "0", ".", "0", ".", "0", "/", "1">>
  /\ returned = <<"f", "d", "7", "a", ":", "1", "1", "5", "c", ":", "a", "1", "e", "0", ":", "b", "1", "a", ":", "0", ":", "1", "0", ":", "8", "0", "0", "0", ":", "0", "0", "0", "0", "/", "9", "7">>
  /\ DecodedBits(returned)[1] = 1
  /\ \A i \in 2..32 : DecodedBits(returned)[i] = 0

\* IPv4 network b contains IPv4 network a: b's prefix is no longer than a's
\* and the two addresses agree on it
NetworkContains(b, a) ==
  /\ b.prefixlen <= a.prefixlen
  /\ \A i \in 1..b.prefixlen : b.network_address[i] = a.network_address[i]

NetworksDisjoint(a, b) == ~NetworkContains(a, b) /\ ~NetworkContains(b, a)

\* the range a returned text denotes within the /96 of its first six groups:
\* from the 32 bits of its last two groups with the bits after the prefix
\* cleared, to the same with those bits set
RangeFirst(s) ==
  [i \in 1..32 |-> IF i <= DecodedPrefixLength(s) THEN DecodedBits(s)[i] ELSE 0]

RangeLast(s) ==
  [i \in 1..32 |-> IF i <= DecodedPrefixLength(s) THEN DecodedBits(s)[i] ELSE 1]

BitsLess(x, y) == \E i \in 1..32 : x[i] < y[i] /\ \A j \in 1..(i - 1) : x[j] = y[j]

BitsAtMost(x, y) == x = y \/ BitsLess(x, y)

RangeWithin(inner, outer) ==
  /\ BitsAtMost(RangeFirst(outer), RangeFirst(inner))
  /\ BitsAtMost(RangeLast(inner), RangeLast(outer))

RangesDisjoint(s, t) ==
  \/ BitsLess(RangeLast(s), RangeFirst(t))
  \/ BitsLess(RangeLast(t), RangeFirst(s))

\* C22: of two invocations with the same site id that both return, the texts
\* agree in their first six groups; when the network of one contains the
\* network of the other, the range of the one's text contains the range of
\* the other's, and when the networks are disjoint so are the ranges.
C22_ContainmentPreserved ==
  (Succeeded /\ earlier.outcome = "returned" /\ site_id = earlier.site_id)
    => /\ SubSeq(OutputGroups(returned), 1, 6) = SubSeq(OutputGroups(earlier.returned), 1, 6)
       /\ NetworkContains(earlier.ipv4_network, ipv4_network)
            => RangeWithin(returned, earlier.returned)
       /\ NetworkContains(ipv4_network, earlier.ipv4_network)
            => RangeWithin(earlier.returned, returned)
       /\ NetworksDisjoint(ipv4_network, earlier.ipv4_network)
            => RangesDisjoint(returned, earlier.returned)

\* 10.100.0.0/16 after 10.0.0.0/8, which contains it
C22_Witness ==
  /\ Succeeded
  /\ earlier.outcome = "returned"
  /\ site_id = 10 /\ earlier.site_id = 10
  /\ ipv4_cidr = <<"1", "0", ".", "1", "0", "0", ".", "0", ".", "0", "/", "1", "6">> /\ earlier.ipv4_cidr = <<"1", "0", ".", "0", ".", "0", ".", "0", "/", "8">>
  /\ NetworkContains(earlier.ipv4_network, ipv4_network)
  /\ ~NetworkContains(ipv4_network, earlier.ipv4_network)
  /\ RangeWithin(returned, earlier.returned)

\* 17.0.0.0/16 after 1.16.0.0/16, which is disjoint from it
C22_WitnessDisjoint ==
  /\ Succeeded
  /\ earlier.outcome = "returned"
  /\ site_id = 1 /\ earlier.site_id = 1
  /\ ipv4_cidr = <<"1", "7", ".", "0", ".", "0", ".", "0", "/", "1", "6">> /\ earlier.ipv4_cidr = <<"1", ".", "1", "6", ".", "0", ".", "0", "/", "1", "6">>
  /\ NetworksDisjoint(ipv4_network, earlier.ipv4_network)
  /\ RangesDisjoint(returned, earlier.returned)

\* C23: with a site id in range, a dotted quad written without "/" and prefix
\* length is not refused: it is taken as the /32 network of that address,
\* and the text returned has the address in its last two groups and ends in
\* /128.
C23_BareAddressIsHostRoute ==
  \A a \in Addresses :
    (SiteIdInRange /\ ipv4_cidr = DottedQuad(a))
      => /\ ~Failed
         /\ raised = NoException
         /\ pc \notin {"validate", "translator", "parse"} => ipv4_network.prefixlen = 32
         /\ Succeeded => /\ OutputPrefixLength(returned) = 128
                         /\ DecodedBytes(returned) = a

C23_Witness ==
  /\ Succeeded
  /\ site_id = 0
  /\ ipv4_cidr = <<"1", "9", "2", ".", "1", "6", "8", ".", "0", ".", "0">>
  /\ returned = <<"f", "d", "7", "a", ":", "1", "1", "5", "c", ":", "a", "1", "e", "0", ":", "b", "1", "a", ":", "0", ":", "0", ":", "c", "0", "a", "8", ":", "0", "0", "0", "0", "/", "1", "2", "8">>

Declared(name) == \E k \in 1..Len(program.declared) : program.declared[k] = name

\* C24: in aws/eks/__main__.py, whenever the Connector is declared the
\* configured SITE is an integer of 0..65535 and advertiseRoutes holds one
\* route, the text fd7a:115c:a1e0:b1a:0:<SITE>:0a64:0000/112 with SITE in
\* decimal, which is what the call of line 188 returned; and with such a SITE
\* the program is never ended by that call.
C24_ConnectorRoute ==
  /\ Declared("service_router")
       => /\ program.config.kind = "int"
          /\ program.SITE = program.config.value
          /\ program.SITE \in 0..65535
          /\ Len(program.advertiseRoutes) = 1
          /\ program.advertiseRoutes[1]
               = <<"f", "d", "7", "a", ":", "1", "1", "5", "c", ":", "a", "1", "e", "0", ":", "b", "1", "a", ":", "0", ":">> \o Decimal(program.SITE) \o <<":", "0", "a", "6", "4", ":", "0", "0", "0", "0", "/", "1", "1", "2">>
          /\ program.advertiseRoutes[1] = returned
          /\ site_id = program.SITE /\ ipv4_cidr = <<"1", "0", ".", "1", "0", "0", ".", "0", ".", "0", "/", "1", "6">>
  /\ ~Declared("service_router") => program.advertiseRoutes = <<>>
  /\ (program.config.kind = "int" /\ program.config.value \in 0..65535)
       => /\ program.status # "aborted"
          /\ program.at > Len(Statements) => Declared("service_router")

C24_Witness ==
  /\ Declared("service_router")
  /\ program.SITE = 4095
  /\ program.advertiseRoutes = << <<"f", "d", "7", "a", ":", "1", "1", "5", "c", ":", "a", "1", "e", "0", ":", "b", "1", "a", ":", "0", ":", "4", "0", "9", "5", ":", "0", "a", "6", "4", ":", "0", "0", "0", "0", "/", "1", "1", "2">> >>

\* the resources declared before line 188, in the order of their statements
DeclaredFirst ==
  << "cluster", "ingress", "provider", "workload", "tailscale_ns",
     "tailscale_operator", "admins", "sandbox" >>

\* C25: in aws/eks/__main__.py the call of line 188 is entered only when the
\* cluster, the security-group rule, the provider, the node group, the
\* namespace, the operator release and both IAM role mappings are declared,
\* and the ProxyClass and the Connector are declared only after it has
\* returned. With an integer SITE outside 0..65535 the program is ended by
\* the ValueError of the range check, those eight resources being declared
\* and the ProxyClass and the Connector not.
C25_AddressBetweenDeclarations ==
  /\ (program.status = "calling" \/ program.ipv6_cidr # Unassigned)
       => /\ Len(program.declared) >= Len(DeclaredFirst)
          /\ SubSeq(program.declared, 1, Len(DeclaredFirst)) = DeclaredFirst
  /\ (Declared("proxyclass") \/ Declared("service_router"))
       => /\ program.ipv6_cidr # Unassigned
          /\ pc = "returned"
  /\ (program.config.kind = "int" /\ program.config.value \notin 0..65535)
       => /\ ~Declared("proxyclass") /\ ~Declared("service_router")
          /\ program.ipv6_cidr = Unassigned
          /\ program.advertiseRoutes = <<>>
          /\ program.at <= 9
          /\ program.status = "aborted"
               => /\ program.error.type = "ValueError"
                  /\ program.error.why = "Site ID must be between 0 and 65535 (inclusive)"
                  /\ program.declared = DeclaredFirst

C25_Witness ==
  /\ program.status = "aborted"
  /\ program.SITE = 65536
  /\ program.error.why = "Site ID must be between 0 and 65535 (inclusive)"
  /\ program.declared = DeclaredFirst
  /\ ~Declared("proxyclass") /\ ~Declared("service_router")

====
